---- MODULE Spec2Model ----
(***************************************************************************)
(* A model of yggdrasilctl's two admin-API clients:                        *)
(*   yggdrasilctl/sync.py  AdminAPI (blocking sockets, optional keepalive)  *)
(*   yggdrasilctl/aio.py   AdminAPI (asyncio, stats aggregate, callbacks)   *)
(* and of yggdrasilctl/utils.py (connect, preprocess).                      *)
(*                                                                         *)
(* Python values are represented as follows.                                *)
(*   dict            a function whose DOMAIN is the set of keys             *)
(*   `k in d`        k \in DOMAIN d                                         *)
(*   an identifier-keyed JSON object whose iteration order matters          *)
(*                   the sequence of its items, << <<key, value>>, ... >>   *)
(*   list            a sequence                                             *)
(*   float seconds   an integer number of tenths of a second                *)
(*   timedelta       its whole number of seconds                            *)
(*   exception       the name of its class                                  *)
(*   an argument of a facade method, and a value of the encoded request     *)
(*                   a pair <<type, value>>: <<"str", s>>, None, JSON null  *)
(***************************************************************************)
EXTENDS Integers, Sequences, FiniteSets, TLC

\* Number of concurrent callers (threads of the sync client, tasks of the
\* aio client) sharing one client instance.
NCallers == 2

\* Number of calls the callers start on the client, in total.
MaxCalls == 2

Callers == 1..NCallers

VARIABLES
    flavour,     \* which AdminAPI was constructed: "none", "sync", "aio"
    client,      \* "unbuilt", "ready", or "failed" (the constructor raised)
    ctorExc,     \* the exception the constructor raised, or "none"
    keepalive,   \* self.keepalive (sync.py)
    connection,  \* self.connection (sync.py): a socket handle, 0 = no attribute
    sock,        \* every socket created so far: handle -> its state
    call,        \* per caller: the position and locals of its current call
    ncalls,      \* calls started so far
    handles,     \* per caller: the handles its calls exchanged on, in order
    last,        \* the call that ended last: what it met and how it ended
    stats,       \* self.stats (aio.py)
    callbacks,   \* self.__callbacks (aio.py): method -> list of callbacks
    reg,         \* the last call of a registry method and how it ended
    nreg,        \* calls of registry methods so far
    requested,   \* the <<method, callback>> the user registered and has not removed
    given,       \* the arguments a facade method is called with
    request,     \* the JSON object _send_request writes for `given`
    record,      \* the keyword arguments preprocess is called with
    normal       \* the dict preprocess returned for `record`

\* The clients and what their callers observed.
clientVars == <<flavour, client, ctorExc, keepalive, connection, sock, call, ncalls,
                handles, last, stats, callbacks, reg, nreg, requested>>

\* The inputs and results of the functions that keep no state.
pureVars == <<given, request, record, normal>>

vars == <<clientVars, pureVars>>

----------------------------------------------------------------------------
(* The environment: what the network and the daemon may do.                *)

\* How an attempt to connect ends.
ConnectResults == {"ok", "refused", "timeout", "dns"}

\* The exception socket.connect / asyncio.open_connection raises for a failed
\* attempt.  All three are subclasses of OSError (socket.error is OSError).
ConnectError(r) ==
    CASE r = "refused" -> "ConnectionRefusedError"
      [] r = "timeout" -> "timeout"
      [] r = "dns"     -> "gaierror"

OSErrors == {"ConnectionRefusedError", "ConnectionResetError", "timeout", "gaierror"}

IsOSError(e) == e \in OSErrors

\* How writing the request, or reading the response, may fail.
IOFaults == {"reset", "iotimeout"}

IOError(f) ==
    CASE f = "reset"     -> "ConnectionResetError"
      [] f = "iotimeout" -> "timeout"

\* Response texts json.load / json.loads cannot decode.
BadTexts == {"truncated", "malformed"}

NoConn == 0
NoValue == <<>>

----------------------------------------------------------------------------
(* The operations of the facade.                                           *)

\* aio.py __init_trackers: the methods wrapped by done_tracker.
TrackedMethods ==
    {"DHTping", "getAllowedEncryptionPublicKeys", "getDHT", "getNodeInfo",
     "getPeers", "getSelf", "getSessions", "getSwitchPeers"}

\* The operations that change the daemon's configuration.
WriteMethods ==
    {"addPeer", "removePeer", "addRoute", "removeRoute",
     "addAllowedEncryptionPublicKey", "removeAllowedEncryptionPublicKey",
     "addSourceSubnet", "removeSourceSubnet"}

Methods == TrackedMethods \cup WriteMethods

\* The methods the callers of the model call, one for each of these shapes of
\* facade method: unwrap the one record (getSelf); flatten under `addr` with
\* preprocess (getPeers, and getDHT whose records carry last_seen); pass one
\* value of the body through (getNodeInfo); pass the whole body through
\* (addPeer, which is not tracked).  getSessions is coded as getPeers,
\* getAllowedEncryptionPublicKeys as getNodeInfo, and every other write
\* operation as addPeer.
CalledMethods == {"getSelf", "getPeers", "getDHT", "getNodeInfo", "addPeer"}

\* The key of the response body a facade method reads (raw['peers'], ...).
BodyKey(m) ==
    CASE m = "getSelf"        -> "self"
      [] m = "getPeers"       -> "peers"
      [] m = "getSwitchPeers" -> "switchpeers"
      [] m = "getDHT"         -> "dht"
      [] m = "getSessions"    -> "sessions"
      [] m = "getAllowedEncryptionPublicKeys" -> "allowed_box_pubs"
      [] m = "getNodeInfo"    -> "nodeinfo"
      [] m = "DHTping"        -> "nodes"

\* Methods whose body is an identifier-keyed object of records.
KeyedMethods ==
    {"getSelf", "getPeers", "getSwitchPeers", "getDHT", "getSessions", "DHTping"}

----------------------------------------------------------------------------
(* Response bodies and envelopes the daemon may send.                      *)

PeerA == [port |-> 1, uptime |-> 126, proto |-> "tcp", endpoint |-> "1.2.3.4:9001"]
PeerB == [port |-> 2, uptime |-> 125]
NodeA == [coords |-> "[1 2]", last_seen |-> 34]

\* Items of an identifier-keyed object, in the order the daemon sent them.
ItemsOld == << <<"200::1", PeerA>> >>
ItemsNew == << <<"200::2", PeerB>>, <<"200::1", PeerA>> >>
ItemsDHT == << <<"200::3", NodeA>> >>

\* The value under BodyKey(m) in two successive answers of the daemon.
BodyValues(m) ==
    IF m \in {"getDHT", "DHTping"} THEN {ItemsDHT, ItemsNew}
    ELSE IF m \in KeyedMethods THEN {ItemsOld, ItemsNew}
    ELSE {<<"k1">>, <<"k1", "k2">>}

EmptyBody == [k \in {} |-> NoValue]

\* The response bodies of a successful answer to m.  An empty body is what a
\* daemon of another version may send; the write operations answer with two
\* lists.
Bodies(m) ==
    IF m \in TrackedMethods
    THEN {[k \in {BodyKey(m)} |-> v] : v \in BodyValues(m)} \cup {EmptyBody}
    ELSE IF m \in {"addPeer", "addRoute", "addAllowedEncryptionPublicKey", "addSourceSubnet"}
    THEN {[added |-> <<"x">>, not_added |-> <<>>], [added |-> <<>>, not_added |-> <<"x">>]}
    ELSE {[removed |-> <<"x">>, not_removed |-> <<>>], [removed |-> <<>>, not_removed |-> <<"x">>]}

\* Envelopes that do not report success: `status` "error", another value, or
\* missing; `error` a message, empty, or missing.
FailureEnvelopes ==
    {[status |-> "error", error |-> "unknown peer"],
     [status |-> "error", error |-> ""],
     [status |-> "error"],
     [status |-> "pending", error |-> "unknown peer"],
     [status |-> "pending"],
     [error |-> "unknown peer"],
     EmptyBody}

\* The decoded envelopes the daemon may answer a request for m with.
Envelopes(m) ==
    {[status |-> "success", response |-> b] : b \in Bodies(m)}
    \cup {[status |-> "success"]}
    \cup FailureEnvelopes

----------------------------------------------------------------------------
(* utils.py preprocess and the reshaping done by the facade methods.       *)

\* Python's round() of a float given in tenths: to the nearest integer,
\* halves to the even one.
Round(tenths) ==
    LET q == tenths \div 10
        r == tenths % 10
    IN  IF r < 5 THEN q
        ELSE IF r > 5 THEN q + 1
        ELSE IF q % 2 = 0 THEN q ELSE q + 1

\* preprocess(**kwargs), called at time `now` (in seconds).
preprocess(kwargs, now) ==
    LET k1 == IF "uptime" \in DOMAIN kwargs
              THEN [kwargs EXCEPT !["uptime"] = Round(kwargs["uptime"])]
              ELSE kwargs
    IN  IF "last_seen" \in DOMAIN k1
        THEN [k1 EXCEPT !["last_seen"] = now - Round(k1["last_seen"])]
        ELSE k1

\* dict(name=id, **params) and {name: id, **params}; params has no key `name`.
WithKey(name, id, params) ==
    [k \in {name} \cup DOMAIN params |-> IF k = name THEN id ELSE params[k]]

Returned(v) == [kind |-> "return", exc |-> "none", payload |-> NoValue, result |-> v]
Raised(e, p) == [kind |-> "raise", exc |-> e, payload |-> p, result |-> NoValue]
NoOutcome == [kind |-> "none", exc |-> "none", payload |-> NoValue, result |-> NoValue]

\* What a facade method makes of the body _send_request returned.
Facade(m, raw, now) ==
    LET AddrRecord(id, params) == preprocess(WithKey("addr", id, params), now)
        IdRecord(id, params)   == preprocess(WithKey("id", id, params), now)
        PlainRecord(id, params) == WithKey("addr", id, params)
    IN  IF m \in WriteMethods THEN Returned(raw)
        ELSE IF BodyKey(m) \notin DOMAIN raw THEN Raised("KeyError", <<"str", BodyKey(m)>>)
        ELSE LET v == raw[BodyKey(m)]
             IN CASE m = "getSelf" ->
                       IF Len(v) = 0 THEN Raised("IndexError", NoValue)
                       ELSE Returned(WithKey("addr", v[1][1], v[1][2]))
                  [] m \in {"getPeers", "getDHT", "getSessions"} ->
                       Returned([i \in 1..Len(v) |-> AddrRecord(v[i][1], v[i][2])])
                  [] m = "getSwitchPeers" ->
                       Returned([i \in 1..Len(v) |-> IdRecord(v[i][1], v[i][2])])
                  [] m = "DHTping" ->
                       Returned([i \in 1..Len(v) |-> PlainRecord(v[i][1], v[i][2])])
                  [] OTHER -> Returned(v)

----------------------------------------------------------------------------
(* The request a facade method has _send_request encode.                   *)

\* Python values of the arguments, tagged with their type.
None == <<"NoneType", "">>
Str(s) == <<"str", s>>

\* JSON null.
JsonNull == <<"null", "">>

\* bool(v) of an argument (`if target:`).
Truthy(v) == v # None /\ v # Str("")


\* What a caller passes for an optional parameter: nothing (the default
\* None), an empty string, a value.
ArgValues == {None, Str(""), Str("k")}

\* The calls of the facade methods: the method and the value of each
\* parameter it has (a parameter it lacks is None).
Givens ==
    {[method |-> "getSelf", box_pub_key |-> None, coords |-> None, target |-> None]}
    \cup {[method |-> "getNodeInfo", box_pub_key |-> b, coords |-> c, target |-> None] :
             b \in ArgValues, c \in ArgValues}
    \cup {[method |-> "DHTping", box_pub_key |-> b, coords |-> c, target |-> t] :
             b \in ArgValues, c \in ArgValues, t \in ArgValues}

NoGiven == [method |-> "none", box_pub_key |-> None, coords |-> None, target |-> None]

\* The keyword arguments the facade method passes to _send_request.
\* getNodeInfo passes both of its parameters whatever their values; DHTping
\* passes box_pub_key and coords always and target when it is truthy.
Kwargs(a) ==
    CASE a.method = "getNodeInfo" ->
           [box_pub_key |-> a.box_pub_key, coords |-> a.coords]
      [] a.method = "DHTping" ->
           IF Truthy(a.target)
           THEN [box_pub_key |-> a.box_pub_key, coords |-> a.coords, target |-> a.target]
           ELSE [box_pub_key |-> a.box_pub_key, coords |-> a.coords]
      [] OTHER -> EmptyBody

\* req = {'request': method, **kwargs}
Request(method, kwargs) ==
    [k \in {"request"} \cup DOMAIN kwargs |->
        IF k \in DOMAIN kwargs THEN kwargs[k] ELSE Str(method)]

\* json.dump / json.dumps of a dict of strings and None: every key is
\* written, None as null.
JsonDump(req) ==
    [k \in DOMAIN req |-> IF req[k] = None THEN JsonNull ELSE req[k]]

\* The keys of the records preprocess is called with, beside `addr`, and a
\* value for each (uptime and last_seen in tenths of a second).
RecordKeys == {"proto", "endpoint", "uptime", "last_seen"}

RecordValue(k) ==
    CASE k = "proto" -> "tcp"
      [] k = "endpoint" -> "1.2.3.4:9001"
      [] k = "uptime" -> 125
      [] k = "last_seen" -> 34

\* preprocess(addr=addr, **params) for every choice of the keys of params.
Records ==
    {WithKey("addr", "200::1", [k \in S |-> RecordValue(k)]) : S \in SUBSET RecordKeys}

----------------------------------------------------------------------------
(* The state before any client is constructed.                             *)

IdleCall == [pc |-> "idle", method |-> "none", conn |-> NoConn, req |-> {}]

\* The locals of a call of m that exchanges on handle h.
Started(p, m, h) == [pc |-> p, method |-> m, conn |-> h, req |-> requested]

NoReg == [op |-> "none", method |-> "none", cb |-> "none", id |-> 0, outcome |-> NoOutcome]

\* The record of a call that has not ended.
NoLast ==
    [caller |-> 0, method |-> "none", conn |-> NoConn, fault |-> "none",
     response |-> NoValue, outcome |-> NoOutcome, invoked |-> <<>>,
     requested |-> {}, live |-> {}]

\* No client is constructed.
Unbuilt ==
    /\ flavour = "none"
    /\ client = "unbuilt"
    /\ ctorExc = "none"
    /\ keepalive = FALSE
    /\ connection = NoConn
    /\ sock = <<>>
    /\ call = [c \in Callers |-> IdleCall]
    /\ ncalls = 0
    /\ handles = [c \in Callers |-> <<>>]
    /\ last = NoLast
    /\ stats = EmptyBody
    /\ callbacks = EmptyBody
    /\ reg = NoReg
    /\ nreg = 0
    /\ requested = {}

Init ==
    /\ Unbuilt
    /\ given = NoGiven
    /\ request = NoValue
    /\ record = NoValue
    /\ normal = NoValue

\* The time (in seconds) at which results are normalized.
Times == {1000}

\* The record of the call of caller c that ends now.
Ended(c, h, fault, response, outcome, invoked) ==
    [caller |-> c, method |-> call[c].method, conn |-> h, fault |-> fault,
     response |-> response, outcome |-> outcome, invoked |-> invoked,
     requested |-> call[c].req \cap requested, live |-> requested]

----------------------------------------------------------------------------
(* sync.py                                                                 *)

\* AdminAPI.__init__(address, port, keepalive): with keepalive the socket is
\* created and connected in the constructor, and an exception of connect
\* leaves the constructor as it is.
SyncInit(ka) ==
    /\ client = "unbuilt"
    /\ flavour' = "sync"
    /\ keepalive' = ka
    /\ IF ka
       THEN \E r \in ConnectResults :
              /\ sock' = Append(sock, IF r = "ok" THEN "connected" ELSE "created")
              /\ connection' = Len(sock) + 1
              /\ client' = IF r = "ok" THEN "ready" ELSE "failed"
              /\ ctorExc' = IF r = "ok" THEN "none" ELSE ConnectError(r)
       ELSE /\ client' = "ready"
            /\ UNCHANGED <<sock, connection, ctorExc>>
    /\ UNCHANGED <<call, ncalls, handles, last, stats, callbacks, reg, nreg, requested>>
    /\ UNCHANGED pureVars

\* SyncHasConnection testing for an attribute the constructor never sets.
SyncHasOtherAttribute == FALSE

\* hasattr(self, 'connection')
SyncHasConnection == connection # NoConn

\* The exception _get_connection raises when conn.connect raised e.
SyncConnectFailure(e) == IF IsOSError(e) THEN "APIUnreachable" ELSE e

\* A facade method m is called: _send_request builds the request and calls
\* _get_connection (lines 39-40, 27-36).  When connect fails the call ends
\* here, before the try statement is entered.
SyncGetConnection(c, m) ==
    /\ flavour = "sync" /\ client = "ready"
    /\ call[c].pc = "idle"
    /\ ncalls < MaxCalls
    /\ ncalls' = ncalls + 1
    /\ IF SyncHasConnection
       THEN /\ call' = [call EXCEPT ![c] = Started("write", m, connection)]
            /\ handles' = [handles EXCEPT ![c] = Append(@, connection)]
            /\ UNCHANGED <<sock, last>>
       ELSE \E r \in ConnectResults :
              LET h == Len(sock) + 1 IN
              /\ sock' = Append(sock, IF r = "ok" THEN "connected" ELSE "created")
              /\ IF r = "ok"
                 THEN /\ call' = [call EXCEPT ![c] = Started("write", m, h)]
                      /\ handles' = [handles EXCEPT ![c] = Append(@, h)]
                      /\ UNCHANGED last
                 ELSE /\ last' = [Ended(c, h, r, NoValue,
                                    Raised(SyncConnectFailure(ConnectError(r)), NoValue), <<>>)
                                  EXCEPT !.method = m]
                      /\ UNCHANGED <<call, handles>>
    /\ UNCHANGED <<flavour, client, ctorExc, keepalive, connection, stats, callbacks,
                   reg, nreg, requested>>
    /\ UNCHANGED pureVars

\* SyncClosesOnExit with the test of keepalive inverted.
SyncClosesWhenKeepalive == keepalive

\* Whether the finally clause of _send_request closes the socket (line 45).
SyncClosesOnExit == ~keepalive

\* SyncErrorPayload with an empty `error` taken as a missing one.
SyncErrorPayloadNonEmpty(response) ==
    IF "error" \in DOMAIN response /\ response["error"] # ""
    THEN <<"str", response["error"]>>
    ELSE <<"dict", response>>

\* The payload of the APIError raised for an envelope that is not a success
\* (lines 48-50).  A payload is tagged with the type of its value.
SyncErrorPayload(response) ==
    IF "error" \in DOMAIN response
    THEN <<"str", response["error"]>>
    ELSE <<"dict", response>>

\* Whether the envelope takes the error path (line 47); KeyError without `status`.
SyncIsFailure(response) == ~(response["status"] = "success")

\* _send_request after the exchange (lines 47-51).
SyncClassify(response) ==
    IF "status" \notin DOMAIN response THEN Raised("KeyError", <<"str", "status">>)
    ELSE IF SyncIsFailure(response) THEN Raised("APIError", SyncErrorPayload(response))
    ELSE IF "response" \notin DOMAIN response THEN Raised("KeyError", <<"str", "response">>)
    ELSE Returned(response["response"])

\* What the call ends with: the exception of the exchange as it is, or what
\* the classification and then the facade method make of the response.
SyncOutcome(m, response, exc, now) ==
    IF exc # "none" THEN Raised(exc, NoValue)
    ELSE LET r == SyncClassify(response)
         IN  IF r.kind = "raise" THEN r ELSE Facade(m, r.result, now)

\* The exchange of caller c is over, with a response or with an exception:
\* the finally clause (lines 44-46), then lines 47-51 and the facade method.
SyncExit(c, fault, response, exc, now) ==
    /\ sock' = IF SyncClosesOnExit THEN [sock EXCEPT ![call[c].conn] = "closed"] ELSE sock
    /\ last' = Ended(c, call[c].conn, fault, response,
                     SyncOutcome(call[c].method, response, exc, now), <<>>)
    /\ call' = [call EXCEPT ![c] = IdleCall]

\* json.dump(req, conn.makefile('w')) (line 42)
SyncWrite(c) ==
    /\ flavour = "sync" /\ call[c].pc = "write"
    /\ \/ /\ call' = [call EXCEPT ![c].pc = "read"]
          /\ UNCHANGED <<sock, last>>
       \/ \E f \in IOFaults : SyncExit(c, f, NoValue, IOError(f), 0)
    /\ UNCHANGED <<flavour, client, ctorExc, keepalive, connection, ncalls, handles,
                   stats, callbacks, reg, nreg, requested>>
    /\ UNCHANGED pureVars

\* response = json.load(conn.makefile('r')) (line 43)
SyncRead(c) ==
    /\ flavour = "sync" /\ call[c].pc = "read"
    /\ \/ \E e \in Envelopes(call[c].method), now \in Times : SyncExit(c, "none", e, "none", now)
       \/ \E f \in IOFaults : SyncExit(c, f, NoValue, IOError(f), 0)
       \/ \E t \in BadTexts : SyncExit(c, t, NoValue, "JSONDecodeError", 0)
    /\ UNCHANGED <<flavour, client, ctorExc, keepalive, connection, ncalls, handles,
                   stats, callbacks, reg, nreg, requested>>
    /\ UNCHANGED pureVars

----------------------------------------------------------------------------
(* aio.py and utils.py connect                                             *)

\* AdminAPI.__init__ (lines 15-18) and __init_trackers (lines 385-394).
AioInit ==
    /\ client = "unbuilt"
    /\ flavour' = "aio"
    /\ client' = "ready"
    /\ stats' = EmptyBody
    /\ callbacks' = [m \in TrackedMethods |-> <<>>]
    /\ UNCHANGED <<ctorExc, keepalive, connection, sock, call, ncalls, handles, last,
                   reg, nreg, requested>>
    /\ UNCHANGED pureVars

\* utils.py connect: the exception raised when open_connection raised e.
AioConnectFailure(e) == IF IsOSError(e) THEN "APIUnreachable" ELSE e

\* A facade method m is called and _send_request enters `async with connect`
\* (aio.py lines 21-23, utils.py lines 16-21).  Once connected the request is
\* handed to the writer and the task waits in reader.read().
AioConnect(c, m) ==
    /\ flavour = "aio" /\ client = "ready"
    /\ call[c].pc = "idle"
    /\ ncalls < MaxCalls
    /\ ncalls' = ncalls + 1
    /\ \E r \in ConnectResults :
         IF r = "ok"
         THEN LET h == Len(sock) + 1 IN
              /\ sock' = Append(sock, "connected")
              /\ call' = [call EXCEPT ![c] = Started("read", m, h)]
              /\ handles' = [handles EXCEPT ![c] = Append(@, h)]
              /\ UNCHANGED last
         ELSE /\ last' = [Ended(c, NoConn, r, NoValue,
                            Raised(AioConnectFailure(ConnectError(r)), NoValue), <<>>)
                          EXCEPT !.method = m]
              /\ UNCHANGED <<sock, call, handles>>
    /\ UNCHANGED <<flavour, client, ctorExc, keepalive, connection, stats, callbacks,
                   reg, nreg, requested>>
    /\ UNCHANGED pureVars

\* The payload of the APIError (lines 26-28), tagged with the type of its value.
AioErrorPayload(response) ==
    IF "error" \in DOMAIN response
    THEN <<"str", response["error"]>>
    ELSE <<"dict", response>>

\* Whether the envelope takes the error path (line 25); KeyError without `status`.
AioIsFailure(response) == ~(response["status"] = "success")

\* _send_request after the exchange (lines 25-30), but for the update of stats.
AioClassify(response) ==
    IF "status" \notin DOMAIN response THEN Raised("KeyError", <<"str", "status">>)
    ELSE IF AioIsFailure(response) THEN Raised("APIError", AioErrorPayload(response))
    ELSE IF "response" \notin DOMAIN response THEN Raised("KeyError", <<"str", "response">>)
    ELSE Returned(response["response"])

\* DictUpdate assigning the body instead of merging it.
DictReplace(d, other) == other

\* dict.update: d.update(other)
DictUpdate(d, other) ==
    [k \in DOMAIN d \cup DOMAIN other |-> IF k \in DOMAIN other THEN other[k] ELSE d[k]]

\* AioStats recording the payload of a failure as well.
AioStatsWithErrors(m, r) ==
    IF r.kind = "return" THEN DictUpdate(stats, r.result)
    ELSE DictUpdate(stats, [error |-> r.payload])

\* self.stats after _send_request got the outcome r of AioClassify: line 29
\* is reached whenever line 30 is, whatever the method.
AioStats(m, r) ==
    IF r.kind = "return" THEN DictUpdate(stats, r.result) ELSE stats

\* Callbacks that raise when they are called.
RaisingCallbacks == {"cb2"}

\* The callbacks done_tracker's loop calls (lines 401-402): those of cbs up
\* to and including the first that raises.
RECURSIVE Called(_)
Called(cbs) ==
    IF cbs = <<>> THEN <<>>
    ELSE IF Head(cbs) \in RaisingCallbacks THEN <<Head(cbs)>>
    ELSE <<Head(cbs)>> \o Called(Tail(cbs))

\* self.__callbacks.get(coro.__name__, []) (line 400)
CallbacksOf(m) == IF m \in DOMAIN callbacks THEN callbacks[m] ELSE <<>>

\* The calls done_tracker's wrapper makes once the wrapped method returned
\* result (lines 400-402): << <<callback, argument>>, ... >>.
AioInvoked(m, r) ==
    IF m \in TrackedMethods /\ r.kind = "return"
    THEN LET cbs == Called(CallbacksOf(m))
         IN  [i \in 1..Len(cbs) |-> <<cbs[i], r.result>>]
    ELSE <<>>

\* What the wrapper (or, for a method that is not wrapped, the method) ends with.
AioWrapped(m, r) ==
    LET inv == AioInvoked(m, r)
    IN  IF inv # <<>> /\ inv[Len(inv)][1] \in RaisingCallbacks
        THEN Raised("CallbackError", NoValue)
        ELSE r

\* What the facade method ends with.
AioMethod(m, response, exc, now) ==
    IF exc # "none" THEN Raised(exc, NoValue)
    ELSE LET r == AioClassify(response)
         IN  IF r.kind = "raise" THEN r ELSE Facade(m, r.result, now)

\* The exchange of task c is over, with a response or with an exception: the
\* context manager closes the writer (utils.py lines 22-24), then lines 25-30
\* run, the facade method reshapes the body, and done_tracker's wrapper calls
\* the callbacks.  Nothing in this awaits but writer.wait_closed(), after
\* which the task runs to its end, so the steps are taken as one.
AioExit(c, fault, response, exc, now) ==
    LET m == call[c].method
        r == AioMethod(m, response, exc, now)
    IN  /\ sock' = [sock EXCEPT ![call[c].conn] = "closed"]
        /\ stats' = IF exc = "none" THEN AioStats(m, AioClassify(response)) ELSE stats
        /\ last' = Ended(c, call[c].conn, fault, response, AioWrapped(m, r), AioInvoked(m, r))
        /\ call' = [call EXCEPT ![c] = IdleCall]

\* response = json.loads(await reader.read()) (line 24)
AioRead(c) ==
    /\ flavour = "aio" /\ call[c].pc = "read"
    /\ \/ \E e \in Envelopes(call[c].method), now \in Times : AioExit(c, "none", e, "none", now)
       \/ \E f \in IOFaults : AioExit(c, f, NoValue, IOError(f), 0)
       \/ \E t \in BadTexts : AioExit(c, t, NoValue, "JSONDecodeError", 0)
    /\ UNCHANGED <<flavour, client, ctorExc, keepalive, connection, ncalls, handles,
                   callbacks, reg, nreg, requested>>
    /\ UNCHANGED pureVars

----------------------------------------------------------------------------
(* aio.py: the registry of completion callbacks                            *)

\* Calls of registry methods the user makes.
MaxRegOps == 2

Callbacks == {"cb1", "cb2"}

\* The names callbacks are registered under, and the methods called beside:
\* a method that is tracked and one that is not.
RegMethods == {"getPeers", "addPeer"}

\* The ids del_done_callback_by_id is called with.
Ids == {-1, 0, 1}

\* add_done_callback (lines 407-412).  Line 409 subscripts the bound method
\* list.append instead of calling it: for a method that has a list this raises
\* TypeError, which the except clause does not catch; for one that has none the
\* lookup raises KeyError, which is caught, and line 412 raises KeyError again.
\* No path appends and none returns.
AddResult(m, cb) ==
    IF m \in DOMAIN callbacks
    THEN [callbacks |-> callbacks, outcome |-> Raised("TypeError", NoValue)]
    ELSE [callbacks |-> callbacks, outcome |-> Raised("KeyError", <<"str", m>>)]

add_done_callback(m, cb) ==
    /\ flavour = "aio" /\ client = "ready"
    /\ nreg < MaxRegOps
    /\ nreg' = nreg + 1
    /\ callbacks' = AddResult(m, cb).callbacks
    /\ reg' = [op |-> "add", method |-> m, cb |-> cb, id |-> 0,
               outcome |-> AddResult(m, cb).outcome]
    /\ requested' = requested \cup {<<m, cb>>}
    /\ UNCHANGED <<flavour, client, ctorExc, keepalive, connection, sock, call, ncalls,
                   handles, last, stats>>
    /\ UNCHANGED pureVars

\* list.remove(x): the list without the first occurrence of x.
RECURSIVE Remove(_, _)
Remove(l, x) ==
    IF l = <<>> THEN <<>>
    ELSE IF Head(l) = x THEN Tail(l)
    ELSE <<Head(l)>> \o Remove(Tail(l), x)

InList(l, x) == \E i \in 1..Len(l) : l[i] = x

\* del_done_callback (lines 414-418): ValueError is caught, KeyError is not.
DelResult(m, cb) ==
    IF m \notin DOMAIN callbacks
    THEN [callbacks |-> callbacks, outcome |-> Raised("KeyError", <<"str", m>>)]
    ELSE IF InList(callbacks[m], cb)
    THEN [callbacks |-> [callbacks EXCEPT ![m] = Remove(@, cb)], outcome |-> Returned("None")]
    ELSE [callbacks |-> callbacks, outcome |-> Returned("None")]

del_done_callback(m, cb) ==
    /\ flavour = "aio" /\ client = "ready"
    /\ nreg < MaxRegOps
    /\ nreg' = nreg + 1
    /\ callbacks' = DelResult(m, cb).callbacks
    /\ reg' = [op |-> "del", method |-> m, cb |-> cb, id |-> 0,
               outcome |-> DelResult(m, cb).outcome]
    /\ requested' = requested \ {<<m, cb>>}
    /\ UNCHANGED <<flavour, client, ctorExc, keepalive, connection, sock, call, ncalls,
                   handles, last, stats>>
    /\ UNCHANGED pureVars

\* del l[i] for a Python index i (negative ones count from the end).
DelAt(l, i) ==
    LET n == IF i < 0 THEN Len(l) + i + 1 ELSE i + 1
    IN  [j \in 1..(Len(l) - 1) |-> IF j < n THEN l[j] ELSE l[j + 1]]

\* del_done_callback_by_id (lines 420-424): IndexError is caught, KeyError is not.
DelByIdResult(m, id) ==
    IF m \notin DOMAIN callbacks
    THEN [callbacks |-> callbacks, outcome |-> Raised("KeyError", <<"str", m>>)]
    ELSE IF -Len(callbacks[m]) <= id /\ id < Len(callbacks[m])
    THEN [callbacks |-> [callbacks EXCEPT ![m] = DelAt(@, id)], outcome |-> Returned("None")]
    ELSE [callbacks |-> callbacks, outcome |-> Returned("None")]

\* The user takes every registration under m to be gone once a removal by id
\* was asked for.
del_done_callback_by_id(m, id) ==
    /\ flavour = "aio" /\ client = "ready"
    /\ nreg < MaxRegOps
    /\ nreg' = nreg + 1
    /\ callbacks' = DelByIdResult(m, id).callbacks
    /\ reg' = [op |-> "del_by_id", method |-> m, cb |-> "none", id |-> id,
               outcome |-> DelByIdResult(m, id).outcome]
    /\ requested' = {p \in requested : p[1] # m}
    /\ UNCHANGED <<flavour, client, ctorExc, keepalive, connection, sock, call, ncalls,
                   handles, last, stats>>
    /\ UNCHANGED pureVars

----------------------------------------------------------------------------
(* Specifications                                                          *)

\* Both clients, called concurrently by the callers.
Next ==
    \/ \E ka \in BOOLEAN : SyncInit(ka)
    \/ \E c \in Callers, m \in CalledMethods : SyncGetConnection(c, m)
    \/ \E c \in Callers : SyncWrite(c)
    \/ \E c \in Callers : SyncRead(c)
    \/ AioInit
    \/ \E c \in Callers, m \in CalledMethods : AioConnect(c, m)
    \/ \E c \in Callers : AioRead(c)

Spec == Init /\ [][Next]_vars

\* The aio client and its registry of callbacks, called by one task.
NextHooks ==
    \/ AioInit
    \/ \E m \in RegMethods, cb \in Callbacks : add_done_callback(m, cb)
    \/ \E m \in RegMethods, cb \in Callbacks : del_done_callback(m, cb)
    \/ \E m \in RegMethods, id \in Ids : del_done_callback_by_id(m, id)
    \/ \E m \in RegMethods : AioConnect(1, m)
    \/ AioRead(1)

SpecHooks == Init /\ [][NextHooks]_vars

\* A facade method is called with some arguments, and preprocess with some
\* record; no client state is involved.
InitPure ==
    /\ Unbuilt
    /\ given \in Givens
    /\ request = NoValue
    /\ record \in Records
    /\ normal = NoValue

\* The facade method builds its keyword arguments and _send_request encodes
\* the request (sync.py lines 39 and 42, aio.py lines 21 and 23).
SendRequest ==
    /\ request = NoValue
    /\ request' = JsonDump(Request(given.method, Kwargs(given)))
    /\ UNCHANGED <<clientVars, given, record, normal>>

\* preprocess(**record) is called by a facade method.
Normalize ==
    /\ normal = NoValue
    /\ \E now \in Times : normal' = preprocess(record, now)
    /\ UNCHANGED <<clientVars, given, request, record>>

NextPure == SendRequest \/ Normalize

SpecPure == InitPure /\ [][NextPure]_vars

----------------------------------------------------------------------------
(* Properties                                                              *)

\* A call has ended and its exchange produced a decoded envelope.
Decoded == last.caller # 0 /\ last.fault = "none"

RaisedWith(e) == last.outcome.kind = "raise" /\ last.outcome.exc = e

\* The envelope without its `error` field.
Remainder(e) == [k \in DOMAIN e \ {"error"} |-> e[k]]

\* C1 as stated: an envelope whose status is not "success" ends the call with
\* APIError, whose payload is the `error` field when that is present and not
\* empty and the remainder of the envelope otherwise.
C1_PayloadNonEmptyError ==
    (Decoded /\ "status" \in DOMAIN last.response /\ last.response["status"] # "success")
    => /\ RaisedWith("APIError")
       /\ last.outcome.payload =
             IF "error" \in DOMAIN last.response /\ last.response["error"] # ""
             THEN <<"str", last.response["error"]>>
             ELSE <<"dict", Remainder(last.response)>>

\* C1 amended: an envelope whose status is not "success" ends the call (sync
\* and aio) with APIError and no result; the payload is the `error` field
\* whenever the envelope has one, empty or not, and the whole envelope
\* otherwise.
C1_PayloadErrorField ==
    (Decoded /\ "status" \in DOMAIN last.response /\ last.response["status"] # "success")
    => /\ RaisedWith("APIError")
       /\ last.outcome.result = NoValue
       /\ last.outcome.payload =
             IF "error" \in DOMAIN last.response
             THEN <<"str", last.response["error"]>>
             ELSE <<"dict", last.response>>

\* An error envelope with an empty `error` ended a call with APIError("").
C1_Witness ==
    /\ Decoded
    /\ last.response = [status |-> "error", error |-> ""]
    /\ RaisedWith("APIError")
    /\ last.outcome.payload = <<"str", "">>

ConnectFaults == ConnectResults \ {"ok"}

\* C2: a connection that cannot be established is reported as APIUnreachable,
\* by the connect of a call and by the connect of the constructor of a
\* keepalive client.
C2_ConnectFailureIsUnreachable ==
    /\ ctorExc \in {"none", "APIUnreachable"}
    /\ (last.caller # 0 /\ last.fault \in ConnectFaults) => RaisedWith("APIUnreachable")

\* The client opens a connection for every call.
Ephemeral == flavour = "aio" \/ (flavour = "sync" /\ ~keepalive)

Persistent == flavour = "sync" /\ keepalive /\ client = "ready"

\* Caller c is in a call that exchanges on handle h.
Holds(c, h) == call[c].pc # "idle" /\ call[c].conn = h

C4_HandleReuse ==
    \A c \in Callers : \A i, j \in 1..Len(handles[c]) :
        i < j =>
          IF flavour = "sync" /\ keepalive
          THEN handles[c][i] = connection /\ handles[c][j] = connection
          ELSE handles[c][i] # handles[c][j] /\ sock[handles[c][i]] = "closed"

\* A caller of a persistent client is in its second call.
C4_Witness ==
    /\ Persistent
    /\ \E c \in Callers : Len(handles[c]) = 2 /\ last.caller = c /\ Holds(c, connection)

\* The callers whose request is written to h and whose response is not read.
Awaiting(h) == {c \in Callers : call[c].pc = "read" /\ call[c].conn = h}

\* C5: at most one exchange is in flight on a connection.
C5_OneExchangeInFlight == \A h \in 1..Len(sock) : Cardinality(Awaiting(h)) <= 1

\* The calls of callback cb the last call made.
Invocations(cb) == {i \in 1..Len(last.invoked) : last.invoked[i][1] = cb}

\* C6: a successful getPeers calls once, with its result, every callback that
\* was registered for getPeers before the call and not removed, and calls no
\* callback that is not registered.
C6_RegisteredCallbackInvokedOnce ==
    (last.caller # 0 /\ last.method = "getPeers" /\ last.outcome.kind = "return")
    => \A cb \in Callbacks :
          /\ <<"getPeers", cb>> \in last.requested =>
                /\ Cardinality(Invocations(cb)) = 1
                /\ \A i \in Invocations(cb) : last.invoked[i][2] = last.outcome.result
          /\ <<"getPeers", cb>> \notin last.live => Invocations(cb) = {}

\* Task c ends its call in this step.
Ends(c) == call[c].pc # "idle" /\ call'[c].pc = "idle" /\ last'.caller = c

\* The envelope is a success that carries a body.
Success(e) == "status" \in DOMAIN e /\ e["status"] = "success" /\ "response" \in DOMAIN e

\* C7: a successful dispatch of a tracked operation sets in stats exactly the
\* keys of its response body, to the values of the body, and leaves every
\* other key as it was.
C7_StatsLastWriteWins ==
    [][\A c \in Callers :
         (flavour = "aio" /\ Ends(c) /\ call[c].method \in TrackedMethods
            /\ last'.fault = "none" /\ Success(last'.response))
         => LET body == last'.response["response"]
            IN  /\ DOMAIN stats' = DOMAIN stats \cup DOMAIN body
                /\ \A k \in DOMAIN body : stats'[k] = body[k]
                /\ \A k \in DOMAIN stats \ DOMAIN body : stats'[k] = stats[k]]_vars

\* getPeers was dispatched after getSelf: stats holds the peers of the last
\* response and still holds the record of getSelf.
C7_Witness ==
    /\ flavour = "aio" /\ Decoded /\ last.method = "getPeers"
    /\ Success(last.response)
    /\ "peers" \in DOMAIN last.response["response"]
    /\ DOMAIN stats = {"self", "peers"}
    /\ stats["peers"] = last.response["response"]["peers"]

\* C8: a write operation, whether it succeeds or fails, leaves stats as it
\* was and calls no callback.
C8_WriteOpsLeaveStats ==
    [][\A c \in Callers :
         (flavour = "aio" /\ Ends(c) /\ call[c].method \in WriteMethods)
         => (stats' = stats /\ last'.invoked = <<>>)]_vars

\* C9: an exchange that cannot complete on an established connection (reset,
\* timeout, truncated or malformed response) ends the call with APIUnreachable.
C9_ExchangeFailureIsUnreachable ==
    (last.caller # 0 /\ last.fault \in IOFaults \cup BadTexts) => RaisedWith("APIUnreachable")

\* C10: an envelope without `status`, or with a status other than "success",
\* ends the call with APIError carrying the `error` field if there is one and
\* the envelope otherwise.
C10_NoStatusIsApiError ==
    (Decoded /\ ("status" \notin DOMAIN last.response \/ last.response["status"] # "success"))
    => /\ RaisedWith("APIError")
       /\ last.outcome.payload =
             IF "error" \in DOMAIN last.response
             THEN <<"str", last.response["error"]>>
             ELSE <<"dict", last.response>>

\* A registry method is called in this step.
RegCall(op) == nreg' = nreg + 1 /\ reg'.op = op

\* C11: add_done_callback for a name that is not a tracked operation returns
\* without raising and leaves the registry of callbacks as it was.
C11_UntrackedAddIsSilent ==
    [][(RegCall("add") /\ reg'.method \notin TrackedMethods)
       => (reg'.outcome.kind = "return" /\ callbacks' = callbacks)]_vars

\* The optional parameters of the facade method called.
Optional(m) ==
    CASE m = "getNodeInfo" -> {"box_pub_key", "coords"}
      [] m = "DHTping" -> {"box_pub_key", "coords", "target"}
      [] OTHER -> {}

\* C12: the encoded request holds `request` and the optional parameters the
\* caller supplied, and no key for a parameter that was not supplied (so no
\* null); getSelf is encoded as {"request": "getSelf"}.
C12_UnsuppliedParamsAbsent ==
    request # NoValue =>
       /\ "request" \in DOMAIN request /\ request["request"] = Str(given.method)
       /\ \A k \in Optional(given.method) :
             given[k] = None => k \notin DOMAIN request
       /\ \A k \in DOMAIN request : request[k] # JsonNull

\* C13: preprocess gives a record holding proto and endpoint a field `faddr`
\* of "{proto}://{endpoint}" and leaves proto and endpoint as they are; a
\* record lacking one of them gets no `faddr`.
C13_FaddrDerived ==
    normal # NoValue =>
       IF "proto" \in DOMAIN record /\ "endpoint" \in DOMAIN record
       THEN /\ "faddr" \in DOMAIN normal
            /\ normal["faddr"] = record["proto"] \o "://" \o record["endpoint"]
            /\ normal["proto"] = record["proto"]
            /\ normal["endpoint"] = record["endpoint"]
       ELSE "faddr" \notin DOMAIN normal

\* The exchange of the call that ended last failed on an established
\* connection: an I/O error or an undecodable response.
FailedMidExchange == last.caller # 0 /\ last.fault \in IOFaults \cup BadTexts

\* Caller c starts a call in this step, exchanging on handle h.
Starts(c, h) == call[c].pc = "idle" /\ call'[c].pc # "idle" /\ call'[c].conn = h

\* C14: once an exchange on the persistent connection has failed
\* mid-exchange, the next call of the client exchanges on a connection newly
\* opened, not on the one that failed.
C14_FailedConnectionReplaced ==
    [][\A c \in Callers :
         (Persistent /\ FailedMidExchange /\ last.conn = connection
            /\ \E h \in 1..Len(sock') : Starts(c, h))
         => /\ ~Starts(c, last.conn)
            /\ Len(sock') = Len(sock) + 1
            /\ Starts(c, Len(sock'))]_vars

\* A call ends in this step: after its exchange, or at once when its connect
\* failed.
CallEnds ==
    \/ \E c \in Callers : Ends(c)
    \/ ncalls' = ncalls + 1 /\ call' = call

\* The call recorded in l failed as unreachable (no connection, or an I/O
\* error on it), with an undecodable response, or with APIError.
FailedCall(l) ==
    \/ l.fault \in ConnectFaults \cup IOFaults \cup BadTexts
    \/ l.outcome.kind = "raise" /\ l.outcome.exc \in {"APIUnreachable", "APIError"}

\* C15: a call that fails as unreachable, with APIError or on an undecodable
\* response leaves stats and the registry of callbacks as they were, calls no
\* callback, and ends with an exception and no result.
C15_FailedCallLeavesState ==
    [][(CallEnds /\ FailedCall(last'))
       => /\ stats' = stats
          /\ callbacks' = callbacks
          /\ last'.invoked = <<>>
          /\ last'.outcome.kind = "raise"
          /\ last'.outcome.result = NoValue]_vars

\* A call of the aio client ended with APIError after an earlier call had
\* filled stats with the peers it got, and stats holds just those.
C15_Witness ==
    /\ flavour = "aio"
    /\ last.caller # 0 /\ last.fault = "none" /\ RaisedWith("APIError")
    /\ DOMAIN stats = {"peers"}
    /\ last.outcome.result = NoValue /\ last.invoked = <<>>

\* The dispatch of the tracked operation called last succeeded and the
\* facade method returned a result to done_tracker's wrapper.
Dispatched ==
    /\ last.caller # 0 /\ last.method \in TrackedMethods
    /\ last.fault = "none" /\ Success(last.response)
    /\ BodyKey(last.method) \in DOMAIN last.response["response"]

\* The callbacks registered under m when the last call was made.
Registered(m) == {cb \in Callbacks : <<m, cb>> \in last.requested}

\* The callbacks the last call called.
InvokedSet == {last.invoked[i][1] : i \in 1..Len(last.invoked)}

\* C16: after a successful dispatch of a tracked operation the callbacks
\* called are among those registered for it; when none of the registered
\* ones raises, all of them are called and the call returns its result;
\* otherwise the calls end with the first callback that raises and the call
\* ends with its exception.  (What the claim says of the order of the calls
\* implies this.)
C16_CallbacksInvokedInOrder ==
    Dispatched =>
       /\ InvokedSet \subseteq Registered(last.method)
       /\ IF Registered(last.method) \cap RaisingCallbacks = {}
          THEN /\ InvokedSet = Registered(last.method)
               /\ last.outcome.kind = "return"
          ELSE /\ last.invoked # <<>>
               /\ \A i \in 1..Len(last.invoked) :
                     last.invoked[i][1] \in RaisingCallbacks <=> i = Len(last.invoked)
               /\ RaisedWith("CallbackError")

\* C17: add_done_callback on a tracked operation returns a handle under
\* which the registry holds the callback just registered, and
\* del_done_callback_by_id with a negative handle removes nothing.  (The
\* claim implies both.)
C17_HandleIdentifiesCallback ==
    [][/\ (RegCall("add") /\ reg'.method \in TrackedMethods)
          => /\ reg'.outcome.kind = "return"
             /\ reg'.outcome.result + 1 \in 1..Len(callbacks'[reg'.method])
             /\ callbacks'[reg'.method][reg'.outcome.result + 1] = reg'.cb
       /\ (RegCall("del_by_id") /\ reg'.method \in TrackedMethods /\ reg'.id < 0)
          => callbacks' = callbacks]_vars

====
